---- MODULE Spec2Model ----
(***************************************************************************)
(* A model of the ATAP animation editor: the drawing canvas (canvas.py),   *)
(* the frame manager with its playback timers (frame_manager.py) and the   *)
(* project operations of the main window (main_window.py).                 *)
(*                                                                         *)
(* Bitmaps are scaled down: the 800 x 600 canvas of the source is a        *)
(* DefaultWidth x DefaultHeight grid here.  Every handler of the source is  *)
(* one action; the helpers they call are operators on the canvas record.   *)
(***************************************************************************)
EXTENDS Integers, Sequences, FiniteSets, TLC

VARIABLES
    canvas,               \* the Canvas widget: its fields as a record
    frames,               \* FrameManager.frames
    current_frame_index,  \* FrameManager.current_frame_index
    animation_timer,      \* FrameManager.animation_timer: "absent", "active", "inactive"
    orphan_timers,        \* running QTimers no attribute refers to any more
    playback_index,       \* FrameManager.playback_index
    old_index,            \* FrameManager.old_index
    fps,                  \* FrameManager.fps
    fps_spinner,          \* the value FrameManager.fps_spinner shows
    obs,                  \* observer: what the surface and frames were at marked points
    steps,                \* number of handlers run so far, timer ticks apart
    ticks,                \* number of timer ticks so far
    edits                 \* number of mouse events so far

fpsvars == <<fps, fps_spinner>>
fmvars == <<frames, current_frame_index, animation_timer, orphan_timers,
            playback_index, old_index, fpsvars>>
vars == <<canvas, frames, current_frame_index, animation_timer, orphan_timers,
          playback_index, old_index, fps, fps_spinner, obs, steps, ticks, edits>>

----------------------------------------------------------------------------
(* Bounds of the model *)

DefaultWidth == 2
DefaultHeight == 1
MaxWidth == 3
MaxHeight == 1
MaxSteps == 4
MaxPlaySteps == 5
MaxTicks == 4
MaxEdits == 4
MaxMouseEvents == 2
MaxLoad == 1
MaxFrameSteps == 3
MaxDraws == 4
MaxProjectSteps == 3
MaxResizeSteps == 4
MaxAlphaSteps == 3
MaxSetterSteps == 3
DragOvershoot == 3
MaxDots == 2
FillWidth == 2
FillHeight == 2

(* Constants of the program *)

max_history == 20
DefaultFps == 12
MinFps == 1
MaxFps == 60
DefaultBrushSize == 3
DefaultEraserSize == 10
MinSliderSize == 1
MaxSliderSize == 50
NonIntegerFps == -999

----------------------------------------------------------------------------
(* Colours: RGBA quadruples, as QColor holds them *)

White == <<255, 255, 255, 255>>
Black == <<0, 0, 0, 255>>
Red == <<255, 0, 0, 255>>
Blue == <<0, 0, 255, 255>>
Transparent == <<0, 0, 0, 0>>

(* QPainter's default composition mode, CompositionMode_SourceOver, on an
   opaque destination: the source pixel weighted by its alpha over the
   destination pixel.  Exact for alpha 0 and 255, the values used here. *)
SourceOver(src, dst) ==
    [i \in 1 .. 4 |->
        IF i = 4 THEN 255
        ELSE (src[i] * src[4] + dst[i] * (255 - src[4]) + 127) \div 255]

Min(a, b) == IF a <= b THEN a ELSE b
Max(a, b) == IF a >= b THEN a ELSE b

(* A bitmap: QImage(w, h) with one colour per pixel, (0,0) top left *)

Coords(w, h) == (0 .. w - 1) \X (0 .. h - 1)

Filled(w, h, c) == [w |-> w, h |-> h, px |-> [p \in Coords(w, h) |-> c]]

BlankFrame == Filled(DefaultWidth, DefaultHeight, White)

(* QImage.pixelColor: an invalid QColor for a coordinate outside the image *)
InvalidColor == <<0, 0, 0, -1>>

pixelColor(img, p) == IF p \in DOMAIN img.px THEN img.px[p] ELSE InvalidColor

(* Painting a set of pixels in one colour; a QPainter clips to the image *)
Paint(img, ps, c) ==
    [img EXCEPT !.px = [p \in DOMAIN img.px |-> IF p \in ps THEN c ELSE img.px[p]]]

----------------------------------------------------------------------------
(* Canvas: the history stacks (canvas.py) *)

\* Canvas.__init__: a white 800 x 600 image, empty stacks, the pen selected
CanvasInit ==
    [image |-> BlankFrame,
     canvas_width |-> DefaultWidth, canvas_height |-> DefaultHeight,
     width |-> DefaultWidth, height |-> DefaultHeight,
     undo_stack |-> <<>>, redo_stack |-> <<>>,
     drawing |-> FALSE, brush_size |-> DefaultBrushSize, brush_color |-> Black,
     last_point |-> <<0, 0>>, current_tool |-> "pen",
     eraser_size |-> DefaultEraserSize,
     gradient_start_color |-> Red, gradient_end_color |-> Blue]

\* save_state without the bound on the undo stack
save_state_unbounded(c) ==
    [c EXCEPT !.undo_stack = Append(c.undo_stack, c.image),
              !.redo_stack = <<>>]

\* save_state that leaves the redo stack alone
save_state_keeps_redo(c) ==
    LET pushed == Append(c.undo_stack, c.image)
    IN  [c EXCEPT !.undo_stack = IF Len(pushed) > max_history THEN Tail(pushed)
                                                               ELSE pushed]

\* Canvas.save_state: push a copy of the image, drop the oldest entry over
\* max_history, clear the redo stack
save_state(c) ==
    LET pushed == Append(c.undo_stack, c.image)
    IN  [c EXCEPT !.undo_stack = IF Len(pushed) > max_history THEN Tail(pushed)
                                                               ELSE pushed,
                  !.redo_stack = <<>>]

\* Canvas.load_image: snapshot, then replace the image and the canvas size
load_image(c, image) ==
    [save_state(c) EXCEPT !.image = image,
                          !.canvas_width = image.w,
                          !.canvas_height = image.h]

\* Canvas.get_image: a copy of the image (bitmaps are values here)
get_image(c) == c.image

\* Canvas.clear: snapshot, then fill the image white
clear(c) ==
    [save_state(c) EXCEPT !.image = Filled(c.image.w, c.image.h, White)]

\* undo taking the oldest snapshot instead of the newest
undo_oldest(c) ==
    IF c.undo_stack # <<>>
    THEN [c EXCEPT !.redo_stack = Append(c.redo_stack, c.image),
                   !.image = c.undo_stack[1],
                   !.undo_stack = Tail(c.undo_stack)]
    ELSE c

\* undo pushing onto the redo stack before it tests the undo stack
undo_push_first(c) ==
    IF c.undo_stack # <<>>
    THEN [c EXCEPT !.redo_stack = Append(c.redo_stack, c.image),
                   !.image = c.undo_stack[Len(c.undo_stack)],
                   !.undo_stack = SubSeq(c.undo_stack, 1, Len(c.undo_stack) - 1)]
    ELSE [c EXCEPT !.redo_stack = Append(c.redo_stack, c.image)]

\* Canvas.undo
undo(c) ==
    IF c.undo_stack # <<>>
    THEN [c EXCEPT !.redo_stack = Append(c.redo_stack, c.image),
                   !.image = c.undo_stack[Len(c.undo_stack)],
                   !.undo_stack = SubSeq(c.undo_stack, 1, Len(c.undo_stack) - 1)]
    ELSE c

\* redo that does not push the current image onto the undo stack
redo_no_push(c) ==
    IF c.redo_stack # <<>>
    THEN [c EXCEPT !.image = c.redo_stack[Len(c.redo_stack)],
                   !.redo_stack = SubSeq(c.redo_stack, 1, Len(c.redo_stack) - 1)]
    ELSE c

\* Canvas.redo
redo(c) ==
    IF c.redo_stack # <<>>
    THEN [c EXCEPT !.undo_stack = Append(c.undo_stack, c.image),
                   !.image = c.redo_stack[Len(c.redo_stack)],
                   !.redo_stack = SubSeq(c.redo_stack, 1, Len(c.redo_stack) - 1)]
    ELSE c

\* Canvas.resize_canvas: nothing for the same size; else snapshot, then a
\* white image of the new size with the old image drawn (QPainter.drawImage)
\* at its top left
resize_canvas(c, width, height) ==
    IF width = c.canvas_width /\ height = c.canvas_height
    THEN c
    ELSE [save_state(c) EXCEPT
            !.image = [w |-> width, h |-> height,
                       px |-> [p \in Coords(width, height) |->
                                 IF p \in DOMAIN c.image.px
                                 THEN SourceOver(c.image.px[p], White)
                                 ELSE White]],
            !.canvas_width = width,
            !.canvas_height = height,
            !.width = width,
            !.height = height]

\* int(a / b) of Python for b > 0: the quotient truncated towards zero
TruncDiv(a, b) == IF a >= 0 THEN a \div b ELSE -((-a) \div b)

\* Canvas.get_image_position: widget coordinates to image coordinates,
\* int(x * canvas_width / width)
get_image_position(c, pos) ==
    <<TruncDiv(pos[1] * c.canvas_width, c.width),
      TruncDiv(pos[2] * c.canvas_height, c.height)>>

----------------------------------------------------------------------------
(* Canvas: the drawing tools (canvas.py) *)

\* QPainter.drawLine with a round-capped, round-joined pen of width size:
\* the pixels within size/2 of the segment from a to b
StrokePixels(img, a, b, size) ==
    LET abx == b[1] - a[1]
        aby == b[2] - a[2]
        l2  == abx * abx + aby * aby
        Near(p) ==
            LET apx == p[1] - a[1]
                apy == p[2] - a[2]
                bpx == p[1] - b[1]
                bpy == p[2] - b[2]
                dot == apx * abx + apy * aby
            IN  IF l2 = 0 \/ dot <= 0
                THEN 4 * (apx * apx + apy * apy) <= size * size
                ELSE IF dot >= l2
                THEN 4 * (bpx * bpx + bpy * bpy) <= size * size
                ELSE 4 * ((apx * apx + apy * apy) * l2 - dot * dot)
                       <= size * size * l2
    IN  {p \in DOMAIN img.px : Near(p)}

\* QImage.isNull: an image without pixels
isNull(img) == img.w = 0 \/ img.h = 0

\* Canvas.draw_line_to: nothing on a null image; else a pen line from
\* last_point to end_point
draw_line_to(c, end_point) ==
    IF isNull(c.image) THEN c
    ELSE [c EXCEPT !.image = Paint(c.image,
                                   StrokePixels(c.image, c.last_point, end_point,
                                                c.brush_size),
                                   c.brush_color),
                   !.last_point = end_point]

\* Canvas.erase_to: the same line in white with the eraser's width
erase_to(c, end_point) ==
    [c EXCEPT !.image = Paint(c.image,
                              StrokePixels(c.image, c.last_point, end_point, c.eraser_size),
                              White),
              !.last_point = end_point]

\* directions with (1, 1) written for (0, 1)
directions_diagonal == <<<<1, 1>>, <<1, 0>>, <<0, -1>>, <<-1, 0>>>>

\* directions = [(0, 1), (1, 0), (0, -1), (-1, 0)]
directions == <<<<0, 1>>, <<1, 0>>, <<0, -1>>, <<-1, 0>>>>

\* The while loop of fill_at: pop a pixel, skip it if visited or of another
\* colour, else paint it and push its unvisited in-image neighbours.
\* Returns the set of painted pixels.
RECURSIVE FillLoop(_, _, _, _)
FillLoop(src_image, target_color, stack, visited) ==
    IF stack = <<>> THEN visited
    ELSE LET cur  == stack[Len(stack)]
             rest == SubSeq(stack, 1, Len(stack) - 1)
         IN  IF cur \in visited
             THEN FillLoop(src_image, target_color, rest, visited)
             ELSE IF pixelColor(src_image, cur) # target_color
             THEN FillLoop(src_image, target_color, rest, visited)
             ELSE LET v2  == visited \cup {cur}
                      nbr == [i \in 1 .. 4 |-> <<cur[1] + directions[i][1],
                                                 cur[2] + directions[i][2]>>]
                      ok  == SelectSeq(nbr, LAMBDA n :
                                 /\ 0 <= n[1] /\ n[1] < src_image.w
                                 /\ 0 <= n[2] /\ n[2] < src_image.h
                                 /\ n \notin v2)
                  IN  FillLoop(src_image, target_color, rest \o ok, v2)

\* a fill that paints the whole image, whatever the seed
fill_at_whole_image(c, point) ==
    IF ~(/\ 0 <= point[1] /\ point[1] < c.canvas_width
         /\ 0 <= point[2] /\ point[2] < c.canvas_height)
    THEN c
    ELSE [c EXCEPT !.image = Filled(c.image.w, c.image.h, c.brush_color)]

\* Canvas.fill_at: flood fill with the brush colour from point
fill_at(c, point) ==
    IF ~(/\ 0 <= point[1] /\ point[1] < c.canvas_width
         /\ 0 <= point[2] /\ point[2] < c.canvas_height)
    THEN c
    ELSE LET target_color == pixelColor(c.image, point)
         IN  IF target_color = c.brush_color
             THEN c
             ELSE [c EXCEPT !.image =
                      Paint(c.image,
                            FillLoop(c.image, target_color, <<point>>, {}),
                            c.brush_color)]

\* The while loop of fill_gradient: as FillLoop, but the bounds test is made
\* on the popped pixel and nothing is painted.  Returns shape_bounds as a set.
RECURSIVE ShapeLoop(_, _, _, _)
ShapeLoop(src_image, target_color, stack, mask) ==
    IF stack = <<>> THEN mask
    ELSE LET cur  == stack[Len(stack)]
             rest == SubSeq(stack, 1, Len(stack) - 1)
         IN  IF \/ ~(/\ 0 <= cur[1] /\ cur[1] < src_image.w
                     /\ 0 <= cur[2] /\ cur[2] < src_image.h)
                \/ cur \in mask
             THEN ShapeLoop(src_image, target_color, rest, mask)
             ELSE IF pixelColor(src_image, cur) # target_color
             THEN ShapeLoop(src_image, target_color, rest, mask)
             ELSE ShapeLoop(src_image, target_color,
                            rest \o [i \in 1 .. 4 |-> <<cur[1] + directions[i][1],
                                                        cur[2] + directions[i][2]>>],
                            mask \cup {cur})

SetMin(S) == CHOOSE x \in S : \A y \in S : x <= y
SetMax(S) == CHOOSE x \in S : \A y \in S : x >= y

\* QLinearGradient(min_x, min_y, max_x, max_y) from start to end, sampled at
\* the centre of pixel p and clamped to the two stops
GradientColor(start, end, min_x, min_y, max_x, max_y, p) ==
    LET dx == max_x - min_x
        dy == max_y - min_y
        l  == dx * dx + dy * dy
        tn == (2 * (p[1] - min_x) + 1) * dx + (2 * (p[2] - min_y) + 1) * dy
        td == 2 * l
        t  == IF tn < 0 THEN 0 ELSE IF tn > td THEN td ELSE tn
    IN  IF l = 0 THEN start
        ELSE [i \in 1 .. 4 |-> (start[i] * (td - t) + end[i] * t + l) \div td]

\* fill_gradient without the test of the seed's colour against the two
\* gradient colours
fill_gradient_no_guard(c, point) ==
    IF ~(/\ 0 <= point[1] /\ point[1] < c.canvas_width
         /\ 0 <= point[2] /\ point[2] < c.canvas_height)
    THEN c
    ELSE LET target_color == pixelColor(c.image, point)
             shape_bounds == ShapeLoop(c.image, target_color, <<point>>, {})
             min_x == SetMin({q[1] : q \in shape_bounds})
             max_x == SetMax({q[1] : q \in shape_bounds})
             min_y == SetMin({q[2] : q \in shape_bounds})
             max_y == SetMax({q[2] : q \in shape_bounds})
         IN  [c EXCEPT !.image.px =
                [q \in DOMAIN c.image.px |->
                   IF q \in shape_bounds
                   THEN GradientColor(c.gradient_start_color,
                                      c.gradient_end_color,
                                      min_x, min_y, max_x, max_y, q)
                   ELSE c.image.px[q]]]

\* Canvas.fill_gradient: find the region, then paint it with the gradient
\* that runs across the region's bounding box
fill_gradient(c, point) ==
    IF ~(/\ 0 <= point[1] /\ point[1] < c.canvas_width
         /\ 0 <= point[2] /\ point[2] < c.canvas_height)
    THEN c
    ELSE LET target_color == pixelColor(c.image, point)
         IN  IF \/ target_color = c.gradient_start_color
                \/ target_color = c.gradient_end_color
             THEN c
             ELSE LET shape_bounds == ShapeLoop(c.image, target_color, <<point>>, {})
                  IN  IF shape_bounds = {} THEN c
                      ELSE LET min_x == SetMin({q[1] : q \in shape_bounds})
                               max_x == SetMax({q[1] : q \in shape_bounds})
                               min_y == SetMin({q[2] : q \in shape_bounds})
                               max_y == SetMax({q[2] : q \in shape_bounds})
                           IN  [c EXCEPT !.image.px =
                                  [q \in DOMAIN c.image.px |->
                                     IF q \in shape_bounds
                                     THEN GradientColor(c.gradient_start_color,
                                                        c.gradient_end_color,
                                                        min_x, min_y, max_x, max_y, q)
                                     ELSE c.image.px[q]]]

\* mousePressEvent without the snapshot
mousePressEvent_no_snapshot(c, pos) ==
    [c EXCEPT !.drawing = TRUE, !.last_point = get_image_position(c, pos)]

\* Canvas.mousePressEvent (left button): start a stroke and snapshot
mousePressEvent(c, pos) ==
    save_state([c EXCEPT !.drawing = TRUE,
                         !.last_point = get_image_position(c, pos)])

\* Canvas.mouseMoveEvent (left button held): pen and eraser draw while drawing
mouseMoveEvent(c, pos) ==
    IF c.drawing
    THEN LET current_point == get_image_position(c, pos)
         IN  CASE c.current_tool = "pen"    -> draw_line_to(c, current_point)
               [] c.current_tool = "eraser" -> erase_to(c, current_point)
               [] OTHER                     -> c
    ELSE c

\* Canvas.mouseReleaseEvent (left button): the tool acts a last time and the
\* stroke ends
mouseReleaseEvent(c, pos) ==
    IF c.drawing
    THEN LET current_point == get_image_position(c, pos)
             done ==
                CASE c.current_tool = "pen"      -> draw_line_to(c, current_point)
                  [] c.current_tool = "eraser"   -> erase_to(c, current_point)
                  [] c.current_tool = "fill"     -> fill_at(c, current_point)
                  [] c.current_tool = "gradient" -> fill_gradient(c, current_point)
                  [] OTHER                       -> c
         IN  [done EXCEPT !.drawing = FALSE]
    ELSE c

----------------------------------------------------------------------------
(* The observer.  obs records, for the claims about histories, what the    *)
(* surface and the frames were at marked points.                           *)
(*   stroke  a stroke is in progress and nothing but moves followed its    *)
(*           press                                                         *)
(*   phase   "mutated": the last handler completed a surface-mutating      *)
(*           action (a stroke, clear, a size-changing resize);             *)
(*           "undone": the last handler was an undo directly after that;   *)
(*           "redone": the last handler was a redo directly after that undo*)
(*   before, after   the image before and after that action                *)
(*   pclean  playback was started and only timer ticks ran since           *)
(*   pdone   the last handler was a stop_animation that ended such a       *)
(*           playback                                                      *)
(*   pframes, pindex, pimage   frames, current_frame_index and the image   *)
(*           when play_animation was called                                *)
(*   pticks  timer ticks since play_animation was called                   *)
(*   refused the last handler was a frame operation that returned early:   *)
(*           "delete", "move_left", "move_right", else "none"              *)
(*   committed   the last handler assigned the live bitmap to              *)
(*           frames[current_frame_index] before anything else              *)
(*   rt      "added": add_frame ran and only canvas handlers followed;     *)
(*           "back": the last handler then selected frame 0                *)
(*   rtfirst the first frame's content when that add_frame was called: the *)
(*           live bitmap if frame 0 was selected, else frames[0]           *)
(*   rtsecond   the live bitmap of the added frame when frame 0 was        *)
(*           selected again                                                *)
(*   op      the last handler, if it was add_frame, duplicate_frame,       *)
(*           delete_frame or a move that went through, else "none"         *)
(*   fresh   a canvas handler pushed a snapshot (a press, clear, a         *)
(*           size-changing resize) and only canvas handlers other than     *)
(*           undo followed                                                 *)
(*   dropped    the redo stack held entries when that snapshot was pushed  *)

\* The handlers of the canvas alone
CanvasHandlers ==
    {"press", "move", "release", "clear", "undo", "redo", "resize",
     "set_tool", "set_brush_color", "set_brush_size", "set_eraser_size",
     "set_gradient_colors"}

\* The handler called name starts with
\* self.frames[self.current_frame_index] = current_image.copy()
Commits(name) ==
    CASE name \in {"add_frame", "play"} ->
             current_frame_index >= 0 /\ frames # <<>>
      [] name \in {"duplicate_frame", "move_frame_left", "move_frame_right"} ->
             TRUE
      [] name = "on_frame_selected" ->
             current_frame_index >= 0 /\ current_frame_index < Len(frames)
      [] OTHER -> FALSE

ObsInit ==
    [stroke |-> FALSE, phase |-> "none",
     before |-> BlankFrame, after |-> BlankFrame,
     pclean |-> FALSE, pdone |-> FALSE,
     pframes |-> <<>>, pindex |-> 0, pimage |-> BlankFrame, pticks |-> 0,
     refused |-> "none", committed |-> FALSE,
     rt |-> "none", rtfirst |-> BlankFrame, rtsecond |-> BlankFrame,
     op |-> "none", fresh |-> FALSE, dropped |-> FALSE]

Observe(name) ==
    LET stroke == name = "press" \/ (name = "move" /\ obs.stroke)
        phase  == CASE name = "clear" -> "mutated"
                    [] name = "resize" /\ canvas' # canvas -> "mutated"
                    [] name = "release" /\ obs.stroke -> "mutated"
                    [] name = "undo" /\ obs.phase = "mutated" -> "undone"
                    [] name = "redo" /\ obs.phase = "undone" -> "redone"
                    [] OTHER -> "none"
        pclean == name = "play" \/ (name = "tick" /\ obs.pclean)
        pdone  == name = "stop" /\ obs.pclean
        keep   == pclean \/ pdone
        rt     == CASE name = "add_frame" -> "added"
                    [] name \in CanvasHandlers /\ obs.rt = "added" -> "added"
                    [] /\ name = "on_frame_selected"
                       /\ obs.rt = "added"
                       /\ current_frame_index' = 0 -> "back"
                    [] OTHER -> "none"
        pushes == \/ name \in {"press", "clear"}
                  \/ name = "resize" /\ canvas' # canvas
        fresh  == \/ pushes
                  \/ obs.fresh /\ name \in CanvasHandlers \ {"undo"}
    IN  [stroke |-> stroke,
         phase  |-> phase,
         before |-> CASE name \in {"press", "clear", "resize"} -> canvas.image
                      [] stroke \/ phase # "none" -> obs.before
                      [] OTHER -> BlankFrame,
         after  |-> CASE phase = "mutated" -> canvas'.image
                      [] phase \in {"undone", "redone"} -> obs.after
                      [] OTHER -> BlankFrame,
         pclean |-> pclean,
         pdone  |-> pdone,
         pframes |-> CASE name = "play" -> frames
                       [] keep -> obs.pframes
                       [] OTHER -> <<>>,
         pindex |-> CASE name = "play" -> current_frame_index
                      [] keep -> obs.pindex
                      [] OTHER -> 0,
         pimage |-> CASE name = "play" -> canvas.image
                      [] keep -> obs.pimage
                      [] OTHER -> BlankFrame,
         pticks |-> CASE name = "play" -> 0
                      [] name = "tick" /\ obs.pclean -> obs.pticks + 1
                      [] keep -> obs.pticks
                      [] OTHER -> 0,
         refused |-> CASE name = "delete_refused" -> "delete"
                       [] name = "move_left_refused" -> "move_left"
                       [] name = "move_right_refused" -> "move_right"
                       [] OTHER -> "none",
         committed |-> Commits(name),
         rt |-> rt,
         rtfirst |-> CASE name = "add_frame" ->
                            IF current_frame_index = 0 \/ frames = <<>>
                            THEN canvas.image ELSE frames[1]
                       [] rt # "none" -> obs.rtfirst
                       [] OTHER -> BlankFrame,
         rtsecond |-> CASE rt = "back" -> canvas.image
                        [] OTHER -> BlankFrame,
         op |-> IF name \in {"add_frame", "duplicate_frame", "delete_frame",
                             "move_frame_left", "move_frame_right"}
                THEN name ELSE "none",
         fresh |-> fresh,
         dropped |-> IF pushes THEN canvas.redo_stack # <<>>
                               ELSE fresh /\ obs.dropped]

----------------------------------------------------------------------------
(* Inputs *)

\* Pointer positions inside the widget: where a press can be
Positions(c) == (0 .. c.width - 1) \X (0 .. c.height - 1)

\* Pointer positions of a drag: the widget that got the press receives the
\* moves and the release also when the pointer has left it, here by one
\* pixel to the left and by DragOvershoot pixels to the left and the right
DragPositions(c) ==
    Positions(c) \cup {<<-DragOvershoot, 0>>, <<-1, 0>>,
                       <<c.width + DragOvershoot, 0>>}

\* Canvas sizes the resize dialog can give
Sizes == (1 .. MaxWidth) \X (1 .. MaxHeight)

Tools == {"pen", "eraser", "fill", "gradient"}

\* Colours a colour dialog or the palette gives in this model
Palette == {Black, White, Red}

----------------------------------------------------------------------------
(* Canvas handlers *)

MousePress ==
    /\ \E pos \in Positions(canvas) : canvas' = mousePressEvent(canvas, pos)
    /\ UNCHANGED fmvars
    /\ obs' = Observe("press")

MouseMove ==
    /\ canvas.drawing
    /\ \E pos \in DragPositions(canvas) : canvas' = mouseMoveEvent(canvas, pos)
    /\ UNCHANGED fmvars
    /\ obs' = Observe("move")

MouseRelease ==
    /\ canvas.drawing
    /\ \E pos \in DragPositions(canvas) :
          canvas' = mouseReleaseEvent(canvas, pos)
    /\ UNCHANGED fmvars
    /\ obs' = Observe("release")

Clear ==
    /\ canvas' = clear(canvas)
    /\ UNCHANGED fmvars
    /\ obs' = Observe("clear")

Undo ==
    /\ canvas' = undo(canvas)
    /\ UNCHANGED fmvars
    /\ obs' = Observe("undo")

Redo ==
    /\ canvas' = redo(canvas)
    /\ UNCHANGED fmvars
    /\ obs' = Observe("redo")

\* MainWindow.resize_canvas_dialog with both dialogs accepted
ResizeCanvas ==
    /\ \E sz \in Sizes : canvas' = resize_canvas(canvas, sz[1], sz[2])
    /\ UNCHANGED fmvars
    /\ obs' = Observe("resize")

\* Canvas.set_tool
SetTool ==
    /\ \E t \in Tools \ {canvas.current_tool} :
          canvas' = [canvas EXCEPT !.current_tool = t]
    /\ UNCHANGED fmvars
    /\ obs' = Observe("set_tool")

\* Canvas.set_brush_color
SetBrushColor ==
    /\ \E col \in Palette \ {canvas.brush_color} :
          canvas' = [canvas EXCEPT !.brush_color = col]
    /\ UNCHANGED fmvars
    /\ obs' = Observe("set_brush_color")

\* MainWindow.select_start_color with a colour chosen:
\* Canvas.set_gradient_colors(color, gradient_end_color)
SelectStartColor ==
    /\ \E col \in Palette \ {canvas.gradient_start_color} :
          canvas' = [canvas EXCEPT !.gradient_start_color = col]
    /\ UNCHANGED fmvars
    /\ obs' = Observe("set_gradient_colors")

\* MainWindow.select_end_color with a colour chosen:
\* Canvas.set_gradient_colors(gradient_start_color, color)
SelectEndColor ==
    /\ \E col \in Palette \ {canvas.gradient_end_color} :
          canvas' = [canvas EXCEPT !.gradient_end_color = col]
    /\ UNCHANGED fmvars
    /\ obs' = Observe("set_gradient_colors")

\* Values of the two size sliders (range 1 to 50) in this model
SliderChoices ==
    {MinSliderSize, DefaultBrushSize, DefaultEraserSize, MaxSliderSize}

\* Canvas.set_brush_size, from brush_slider.valueChanged
SetBrushSize ==
    /\ \E size \in SliderChoices \ {canvas.brush_size} :
          canvas' = [canvas EXCEPT !.brush_size = size]
    /\ UNCHANGED fmvars
    /\ obs' = Observe("set_brush_size")

\* eraser_slider.valueChanged: setattr(canvas, 'eraser_size', x)
SetEraserSize ==
    /\ \E size \in SliderChoices \ {canvas.eraser_size} :
          canvas' = [canvas EXCEPT !.eraser_size = size]
    /\ UNCHANGED fmvars
    /\ obs' = Observe("set_eraser_size")

----------------------------------------------------------------------------
(* FrameManager (frame_manager.py).  Indices are 0-based as in the source; *)
(* frames is a 1-based sequence, so frame i of the source is frames[i+1].  *)
(* A handler that would raise IndexError ends the process (an exception    *)
(* escaping a PyQt5 slot aborts the application), so it has no successor   *)
(* state: the handler's guard requires IndexInRange.                                        *)

Frame(fs, i) == fs[i + 1]

SetFrame(fs, i, image) == [fs EXCEPT ![i + 1] = image]

\* frames.insert(i, image)
InsertFrame(fs, i, image) ==
    SubSeq(fs, 1, i) \o <<image>> \o SubSeq(fs, i + 1, Len(fs))

\* frames.pop(i)
PopFrame(fs, i) == SubSeq(fs, 1, i) \o SubSeq(fs, i + 2, Len(fs))

\* self.frames[self.current_frame_index] does not raise IndexError
IndexInRange == current_frame_index < Len(frames)

\* the save left out
CommitNothing == frames

\* "Save the current canvas image": frames[current_frame_index] = get_image()
Commit == SetFrame(frames, current_frame_index, get_image(canvas))

\* add_frame appending a copy of the surface instead of a blank frame
AddFrameCopiesSurface ==
    /\ (current_frame_index >= 0 /\ frames # <<>>) => IndexInRange
    /\ LET saved == IF current_frame_index >= 0 /\ frames # <<>> THEN Commit
                                                                ELSE frames
       IN  /\ frames' = Append(saved, get_image(canvas))
           /\ current_frame_index' = Len(saved)
    /\ canvas' = load_image(canvas, get_image(canvas))
    /\ UNCHANGED <<animation_timer, orphan_timers, playback_index, old_index,
                   fpsvars>>
    /\ obs' = Observe("add_frame")

\* FrameManager.add_frame
AddFrame ==
    /\ (current_frame_index >= 0 /\ frames # <<>>) => IndexInRange
    /\ LET saved == IF current_frame_index >= 0 /\ frames # <<>> THEN Commit
                                                                ELSE frames
       IN  /\ frames' = Append(saved, BlankFrame)
           /\ current_frame_index' = Len(saved)
    /\ canvas' = load_image(canvas, BlankFrame)
    /\ UNCHANGED <<animation_timer, orphan_timers, playback_index, old_index,
                 fpsvars>>
    /\ obs' = Observe("add_frame")

\* duplicate_frame putting the copy at the end of the sequence
DuplicateFrameAppends ==
    /\ ~(frames = <<>> \/ current_frame_index < 0)
    /\ IndexInRange
    /\ LET frame_copy == get_image(canvas)
       IN  /\ frames' = Append(Commit, frame_copy)
           /\ current_frame_index' = Len(frames)
           /\ canvas' = load_image(canvas, frame_copy)
    /\ UNCHANGED <<animation_timer, orphan_timers, playback_index, old_index,
                   fpsvars>>
    /\ obs' = Observe("duplicate_frame")

\* FrameManager.duplicate_frame
DuplicateFrame ==
    /\ ~(frames = <<>> \/ current_frame_index < 0)
    /\ IndexInRange
    /\ LET frame_copy == get_image(canvas)
           insert_position == current_frame_index + 1
       IN  /\ frames' = InsertFrame(Commit, insert_position, frame_copy)
           /\ current_frame_index' = insert_position
           /\ canvas' = load_image(canvas, frame_copy)
    /\ UNCHANGED <<animation_timer, orphan_timers, playback_index, old_index,
                 fpsvars>>
    /\ obs' = Observe("duplicate_frame")

\* delete_frame selecting the frame before the deleted one
DeleteFrameSelectsPrevious ==
    /\ ~(frames = <<>> \/ current_frame_index < 0)
    /\ Len(frames) > 1
    /\ IndexInRange
    /\ LET popped == PopFrame(frames, current_frame_index)
           new_index == IF current_frame_index > 0 THEN current_frame_index - 1
                                                   ELSE 0
       IN  /\ frames' = popped
           /\ current_frame_index' = new_index
           /\ canvas' = load_image(canvas, Frame(popped, new_index))
    /\ UNCHANGED <<animation_timer, orphan_timers, playback_index, old_index,
                   fpsvars>>
    /\ obs' = Observe("delete_frame")

\* FrameManager.delete_frame with more than one frame
DeleteFrame ==
    /\ ~(frames = <<>> \/ current_frame_index < 0)
    /\ Len(frames) > 1
    /\ IndexInRange
    /\ LET popped == PopFrame(frames, current_frame_index)
           new_index == Min(current_frame_index, Len(popped) - 1)
       IN  /\ frames' = popped
           /\ current_frame_index' = new_index
           /\ canvas' = IF popped # <<>>
                        THEN load_image(canvas, Frame(popped, new_index))
                        ELSE canvas
    /\ UNCHANGED <<animation_timer, orphan_timers, playback_index, old_index,
                 fpsvars>>
    /\ obs' = Observe("delete_frame")

\* delete_frame without the test for the last frame
DeleteLastFrameAnyway ==
    /\ ~(frames = <<>> \/ current_frame_index < 0)
    /\ Len(frames) <= 1
    /\ frames' = PopFrame(frames, current_frame_index)
    /\ current_frame_index' = Min(current_frame_index, Len(frames) - 2)
    /\ UNCHANGED <<canvas, animation_timer, orphan_timers, playback_index,
                   old_index, fpsvars>>
    /\ obs' = Observe("delete_refused")

\* FrameManager.delete_frame with one frame: the warning, nothing else
DeleteLastFrameRefused ==
    /\ ~(frames = <<>> \/ current_frame_index < 0)
    /\ Len(frames) <= 1
    /\ UNCHANGED <<canvas, fmvars>>
    /\ obs' = Observe("delete_refused")

\* move_frame_left that swaps the frames and leaves the selection behind
MoveFrameLeftNoFollow ==
    /\ ~(\/ frames = <<>>
         \/ current_frame_index <= 0
         \/ current_frame_index >= Len(frames))
    /\ LET saved == Commit
           new_index == current_frame_index - 1
           swapped == [saved EXCEPT
                         ![new_index + 1] = Frame(saved, current_frame_index),
                         ![current_frame_index + 1] = Frame(saved, new_index)]
       IN  /\ frames' = swapped
           /\ current_frame_index' = current_frame_index
           /\ canvas' = load_image(canvas, Frame(swapped, current_frame_index))
    /\ UNCHANGED <<animation_timer, orphan_timers, playback_index, old_index,
                   fpsvars>>
    /\ obs' = Observe("move_frame_left")

\* FrameManager.move_frame_left
MoveFrameLeft ==
    /\ ~(\/ frames = <<>>
         \/ current_frame_index <= 0
         \/ current_frame_index >= Len(frames))
    /\ LET saved == Commit
           new_index == current_frame_index - 1
           swapped == [saved EXCEPT
                         ![new_index + 1] = Frame(saved, current_frame_index),
                         ![current_frame_index + 1] = Frame(saved, new_index)]
       IN  /\ frames' = swapped
           /\ current_frame_index' = new_index
           /\ canvas' = load_image(canvas, Frame(swapped, new_index))
    /\ UNCHANGED <<animation_timer, orphan_timers, playback_index, old_index,
                 fpsvars>>
    /\ obs' = Observe("move_frame_left")

\* move_frame_left testing current_frame_index < 0: at index 0 the frame is
\* swapped with frames[-1], the last one
MoveFrameLeftWraps ==
    /\ (frames = <<>> \/ current_frame_index <= 0
                      \/ current_frame_index >= Len(frames))
    /\ IF frames # <<>> /\ current_frame_index = 0
       THEN LET saved == Commit
                last == Len(frames) - 1
                swapped == [saved EXCEPT ![last + 1] = Frame(saved, 0),
                                         ![1] = Frame(saved, last)]
            IN  /\ frames' = swapped
                /\ current_frame_index' = last
                /\ canvas' = load_image(canvas, Frame(swapped, last))
       ELSE UNCHANGED <<frames, current_frame_index, canvas>>
    /\ UNCHANGED <<animation_timer, orphan_timers, playback_index, old_index,
                 fpsvars>>
    /\ obs' = Observe("move_left_refused")

\* FrameManager.move_frame_left returning at once: no frames, the first
\* frame selected, or an index past the end
MoveFrameLeftRefused ==
    /\ (frames = <<>> \/ current_frame_index <= 0
                      \/ current_frame_index >= Len(frames))
    /\ UNCHANGED <<canvas, fmvars>>
    /\ obs' = Observe("move_left_refused")

\* FrameManager.move_frame_right returning at once: no frames, or the last
\* frame (or an index past it) selected
MoveFrameRightRefused ==
    /\ (frames = <<>> \/ current_frame_index < 0
                      \/ current_frame_index >= Len(frames) - 1)
    /\ UNCHANGED <<canvas, fmvars>>
    /\ obs' = Observe("move_right_refused")

\* FrameManager.move_frame_right
MoveFrameRight ==
    /\ ~(\/ frames = <<>>
         \/ current_frame_index < 0
         \/ current_frame_index >= Len(frames) - 1)
    /\ LET saved == Commit
           new_index == current_frame_index + 1
           swapped == [saved EXCEPT
                         ![new_index + 1] = Frame(saved, current_frame_index),
                         ![current_frame_index + 1] = Frame(saved, new_index)]
       IN  /\ frames' = swapped
           /\ current_frame_index' = new_index
           /\ canvas' = load_image(canvas, Frame(swapped, new_index))
    /\ UNCHANGED <<animation_timer, orphan_timers, playback_index, old_index,
                 fpsvars>>
    /\ obs' = Observe("move_frame_right")

\* on_frame_selected that switches the index before it saves: the live
\* bitmap is written into the slot being entered
OnFrameSelectedCommitsAfter ==
    \E index \in 0 .. Len(frames) - 1 :
        /\ frames' = SetFrame(frames, index, get_image(canvas))
        /\ current_frame_index' = index
        /\ canvas' = load_image(canvas, get_image(canvas))
        /\ UNCHANGED <<animation_timer, orphan_timers, playback_index, old_index,
                 fpsvars>>
        /\ obs' = Observe("on_frame_selected")

\* on_frame_selected that moves the selection and leaves the surface as it is
OnFrameSelectedNoLoad ==
    \E index \in 0 .. Len(frames) - 1 :
        /\ frames' = IF /\ current_frame_index >= 0
                        /\ current_frame_index < Len(frames)
                     THEN Commit ELSE frames
        /\ current_frame_index' = index
        /\ UNCHANGED <<canvas, animation_timer, orphan_timers, playback_index,
                       old_index, fpsvars>>
        /\ obs' = Observe("on_frame_selected")

\* FrameManager.on_frame_selected: a click on item index of the frame list,
\* which holds one item per frame
OnFrameSelected ==
    \E index \in 0 .. Len(frames) - 1 :
        /\ LET saved == IF /\ current_frame_index >= 0
                           /\ current_frame_index < Len(frames)
                        THEN Commit ELSE frames
           IN  /\ frames' = saved
               /\ current_frame_index' = index
               /\ canvas' = IF index >= 0 /\ index < Len(saved)
                            THEN load_image(canvas, Frame(saved, index))
                            ELSE canvas
        /\ UNCHANGED <<animation_timer, orphan_timers, playback_index, old_index,
                 fpsvars>>
        /\ obs' = Observe("on_frame_selected")

\* FrameManager.play_animation: commit, a new running QTimer (the one it
\* replaces, if running, keeps running with no reference left to it),
\* playback from frame 0.  1000 // self.fps raises ZeroDivisionError for
\* fps = 0 and TypeError for an fps that is no number: the handler does not
\* return.
PlayAnimation ==
    /\ (current_frame_index >= 0 /\ frames # <<>>) => IndexInRange
    /\ fps \notin {0, NonIntegerFps}
    /\ LET saved == IF current_frame_index >= 0 /\ frames # <<>> THEN Commit
                                                                ELSE frames
       IN  /\ frames' = saved
           /\ canvas' = IF saved # <<>> THEN load_image(canvas, Frame(saved, 0))
                                        ELSE canvas
    /\ orphan_timers' = IF animation_timer = "active" THEN orphan_timers + 1
                                                      ELSE orphan_timers
    /\ animation_timer' = "active"
    /\ playback_index' = 0
    /\ old_index' = current_frame_index
    /\ UNCHANGED <<current_frame_index, fpsvars>>
    /\ obs' = Observe("play")

\* stop_animation that leaves the selection where playback left it
StopAnimationNoRestore ==
    /\ animation_timer # "absent"
    /\ animation_timer' = "inactive"
    /\ canvas' = IF old_index >= 0 /\ old_index < Len(frames)
                 THEN load_image(canvas, Frame(frames, old_index))
                 ELSE canvas
    /\ UNCHANGED <<frames, current_frame_index, orphan_timers, playback_index,
                   old_index, fpsvars>>
    /\ obs' = Observe("stop")

\* stop_animation that restores the selection but does not reload the frame
StopAnimationNoReload ==
    /\ animation_timer # "absent"
    /\ animation_timer' = "inactive"
    /\ current_frame_index' = old_index
    /\ UNCHANGED <<canvas, frames, orphan_timers, playback_index, old_index,
                   fpsvars>>
    /\ obs' = Observe("stop")

\* FrameManager.stop_animation once play_animation has run
StopAnimation ==
    /\ animation_timer # "absent"
    /\ animation_timer' = "inactive"
    /\ current_frame_index' = old_index
    /\ canvas' = IF old_index >= 0 /\ old_index < Len(frames)
                 THEN load_image(canvas, Frame(frames, old_index))
                 ELSE canvas
    /\ UNCHANGED <<frames, orphan_timers, playback_index, old_index, fpsvars>>
    /\ obs' = Observe("stop")

\* FrameManager.stop_animation before any play_animation: hasattr is False
StopAnimationNoTimer ==
    /\ animation_timer = "absent"
    /\ UNCHANGED <<canvas, fmvars>>
    /\ obs' = Observe("stop_no_timer")

\* advance_frame that stays on the last frame instead of wrapping round
AdvanceFrameNoWrap ==
    /\ animation_timer = "active" \/ orphan_timers > 0
    /\ IF frames = <<>>
       THEN UNCHANGED <<canvas, playback_index, current_frame_index>>
       ELSE LET next == Min(playback_index + 1, Len(frames) - 1)
            IN  /\ playback_index' = next
                /\ canvas' = load_image(canvas, Frame(frames, next))
                /\ current_frame_index' = next
    /\ UNCHANGED <<frames, animation_timer, orphan_timers, old_index, fpsvars>>
    /\ obs' = Observe("tick")

\* Bitmaps a caller hands to update_current_frame in this model
UpdateBitmaps == {Filled(DefaultWidth, DefaultHeight, col) : col \in Palette}

\* FrameManager.update_current_frame(image): the image is written into the
\* current slot, the canvas is not touched.  Called by nothing in the
\* program; a direct call past the end of frames raises IndexError.
UpdateCurrentFrame ==
    /\ ~(frames = <<>> \/ current_frame_index < 0)
    /\ IndexInRange
    /\ \E image \in UpdateBitmaps :
          frames' = SetFrame(frames, current_frame_index, image)
    /\ UNCHANGED <<canvas, current_frame_index, animation_timer, orphan_timers,
                   playback_index, old_index, fpsvars>>
    /\ obs' = Observe("update_current_frame")

\* FrameManager.advance_frame: the timeout of a running timer
AdvanceFrame ==
    /\ animation_timer = "active" \/ orphan_timers > 0
    /\ IF frames = <<>>
       THEN UNCHANGED <<canvas, playback_index, current_frame_index>>
       ELSE LET next == (playback_index + 1) % Len(frames)
            IN  /\ playback_index' = next
                /\ canvas' = load_image(canvas, Frame(frames, next))
                /\ current_frame_index' = next
    /\ UNCHANGED <<frames, animation_timer, orphan_timers, old_index, fpsvars>>
    /\ obs' = Observe("tick")

----------------------------------------------------------------------------
(* The frame rate: FrameManager.fps and its spin box                       *)

\* QSpinBox.setValue: the value is brought into the range of the spin box
Clamp(v) == IF v < MinFps THEN MinFps ELSE IF v > MaxFps THEN MaxFps ELSE v

\* Values the user gives the spin box in this model
SpinnerChoices == {MinFps, DefaultFps, MaxFps}

\* FrameManager.set_fps, the slot of fps_spinner.valueChanged: the user
\* changes the spin box
SetFps ==
    /\ \E v \in SpinnerChoices \ {fps_spinner} :
          /\ fps_spinner' = v
          /\ fps' = v
    /\ UNCHANGED <<canvas, frames, current_frame_index, animation_timer,
                   orphan_timers, playback_index, old_index>>
    /\ obs' = Observe("set_fps")

\* Integer values of "fps" in a project_info.json in this model
ProjectFps == {MinFps - 1, MinFps, DefaultFps, MaxFps, MaxFps + 1}

\* open_project, "Set FPS": self.frame_manager.fps = v, then
\* fps_spinner.setValue(v).  The spin box clamps v; if that changes what it
\* shows, valueChanged calls set_fps with the clamped value, else nothing
\* more happens and fps keeps v.  Gives <<fps, fps_spinner>>.
ProjectFpsResult(v) ==
    IF Clamp(v) # fps_spinner THEN <<Clamp(v), Clamp(v)>>
                              ELSE <<v, fps_spinner>>

----------------------------------------------------------------------------
(* MainWindow: projects (main_window.py) *)

\* MainWindow.new_project answered Yes: empty the frames, add_frame (which
\* finds nothing to commit), then clear the canvas
NewProject ==
    /\ frames' = <<BlankFrame>>
    /\ current_frame_index' = 0
    /\ canvas' = clear(load_image(canvas, BlankFrame))
    /\ UNCHANGED <<animation_timer, orphan_timers, playback_index, old_index,
                 fpsvars>>
    /\ obs' = Observe("new_project")

\* Bitmaps a project archive holds in this model
ProjectBitmaps == {BlankFrame, Filled(MaxWidth, MaxHeight, Black)}

\* The frames open_project reads from an archive: the listed files that
\* exist and load, in order (missing and unreadable ones are skipped)
RECURSIVE SeqsUpTo(_, _)
SeqsUpTo(S, n) ==
    IF n = 0 THEN {<<>>}
    ELSE LET shorter == SeqsUpTo(S, n - 1)
         IN  shorter \cup {Append(q, x) : q \in shorter, x \in S}

ProjectFrameLists == SeqsUpTo(ProjectBitmaps, MaxLoad)

\* MainWindow.open_project answered Yes on a readable archive: the frames
\* are replaced by the loaded ones; the first is selected and shown if
\* there is one
OpenProjectOf(fpsValues, frameLists) ==
    /\ \E loaded \in frameLists :
          /\ frames' = loaded
          /\ IF loaded # <<>>
             THEN /\ current_frame_index' = 0
                  /\ canvas' = load_image(canvas, Frame(loaded, 0))
             ELSE UNCHANGED <<current_frame_index, canvas>>
    /\ \E v \in fpsValues \ {NonIntegerFps} :
          /\ fps' = ProjectFpsResult(v)[1]
          /\ fps_spinner' = ProjectFpsResult(v)[2]
    /\ UNCHANGED <<animation_timer, orphan_timers, playback_index, old_index>>
    /\ obs' = Observe("open_project")

OpenProjectWith(fpsValues) == OpenProjectOf(fpsValues, ProjectFrameLists)

\* Frames with transparent pixels, as a PNG file of a project may hold
LayeredBitmaps ==
    {[w |-> DefaultWidth, h |-> DefaultHeight, px |-> f] :
        f \in [Coords(DefaultWidth, DefaultHeight) -> {White, Transparent}]}
    \ {BlankFrame}

\* open_project on a project of one such frame
OpenLayeredProject ==
    OpenProjectOf({DefaultFps}, {<<b>> : b \in LayeredBitmaps})

\* open_project on a project with any of the frame rates of the model
OpenProject == OpenProjectWith(ProjectFps)

\* open_project on a project saved with the default frame rate
OpenDefaultProject == OpenProjectWith({DefaultFps})

\* MainWindow.open_project failing before it asks (no file chosen, not an
\* archive, no project_info.json, unparsable JSON) or answered No
OpenProjectRefused ==
    /\ UNCHANGED <<canvas, fmvars>>
    /\ obs' = Observe("open_refused")

\* MainWindow.open_project raising after the reset at lines 513-514, the
\* exception caught at the end of the handler.  Either project_info is no
\* JSON object and project_info.get raises at once: the frames are gone and
\* fps stays.  Or the frame loop raises (a frames entry that is no string):
\* fps is set and the frames loaded before the exception stay.  Or "fps" is
\* no integer (a string, null, a fraction): line 517 assigns it and
\* fps_spinner.setValue raises TypeError at line 518; fps then holds a
\* value that is no number of frames, written NonIntegerFps here, and the
\* frames are gone.  Nothing is selected or shown.
OpenProjectRaisesWith(fpsValues) ==
    /\ \/ /\ frames' = <<>>
          /\ UNCHANGED fpsvars
       \/ /\ NonIntegerFps \in fpsValues
          /\ frames' = <<>>
          /\ fps' = NonIntegerFps
          /\ UNCHANGED fps_spinner
       \/ /\ \E loaded \in ProjectFrameLists : frames' = loaded
          /\ \E v \in fpsValues \ {NonIntegerFps} :
                /\ fps' = ProjectFpsResult(v)[1]
                /\ fps_spinner' = ProjectFpsResult(v)[2]
    /\ UNCHANGED <<canvas, current_frame_index, animation_timer, orphan_timers,
                   playback_index, old_index>>
    /\ obs' = Observe("open_raised")

OpenProjectRaises == OpenProjectRaisesWith(ProjectFps \cup {NonIntegerFps})

OpenDefaultProjectRaises == OpenProjectRaisesWith({DefaultFps})

----------------------------------------------------------------------------
(* Specifications *)

\* The state after MainWindow.__init__: Canvas(), then FrameManager(), whose
\* add_frame loads the first blank frame into the canvas
Init ==
    /\ canvas = load_image(CanvasInit, BlankFrame)
    /\ frames = <<BlankFrame>>
    /\ current_frame_index = 0
    /\ animation_timer = "absent"
    /\ orphan_timers = 0
    /\ playback_index = 0
    /\ old_index = 0
    /\ fps = DefaultFps
    /\ fps_spinner = DefaultFps
    /\ obs = ObsInit
    /\ steps = 0
    /\ ticks = 0
    /\ edits = 0

\* One handler of a run of at most MaxSteps handlers
Step(A) == steps < MaxSteps /\ steps' = steps + 1 /\ UNCHANGED <<ticks, edits>> /\ A

\* The frame manager with playback and projects, and pen strokes on the
\* surface; the projects opened have the default frame rate
Next ==
    \/ Step(MousePress)
    \/ Step(MouseRelease)
    \/ Step(AddFrame)
    \/ Step(DuplicateFrame)
    \/ Step(DeleteFrame)
    \/ Step(DeleteLastFrameRefused)
    \/ Step(MoveFrameLeft)
    \/ Step(MoveFrameRight)
    \/ Step(MoveFrameLeftRefused)
    \/ Step(MoveFrameRightRefused)
    \/ Step(OnFrameSelected)
    \/ Step(PlayAnimation)
    \/ Step(StopAnimation)
    \/ Step(StopAnimationNoTimer)
    \/ Step(AdvanceFrame)
    \/ Step(NewProject)
    \/ Step(OpenDefaultProject)
    \/ Step(OpenProjectRefused)
    \/ Step(OpenDefaultProjectRaises)

Spec == Init /\ [][Next]_vars

\* Playback: at most MaxPlaySteps handlers and, besides, MaxTicks timer ticks
PlayStep(A) ==
    steps < MaxPlaySteps /\ steps' = steps + 1 /\ UNCHANGED <<ticks, edits>> /\ A

Tick(A) == ticks < MaxTicks /\ ticks' = ticks + 1 /\ UNCHANGED <<steps, edits>> /\ A

NextPlayback ==
    \/ PlayStep(MousePress)
    \/ PlayStep(MouseRelease)
    \/ PlayStep(AddFrame)
    \/ PlayStep(DeleteFrame)
    \/ PlayStep(PlayAnimation)
    \/ PlayStep(StopAnimation)
    \/ PlayStep(StopAnimationNoTimer)
    \/ Tick(AdvanceFrame)

SpecPlayback == Init /\ [][NextPlayback]_vars

\* An editing session on the frames, without playback: at most
\* MaxFrameSteps frame operations and MaxDraws mouse events
FrameStep(A) ==
    steps < MaxFrameSteps /\ steps' = steps + 1 /\ UNCHANGED <<ticks, edits>> /\ A

Draw(A) == edits < MaxDraws /\ edits' = edits + 1 /\ UNCHANGED <<steps, ticks>> /\ A

NextFrames ==
    \/ Draw(MousePress)
    \/ Draw(MouseRelease)
    \/ FrameStep(AddFrame)
    \/ FrameStep(DuplicateFrame)
    \/ FrameStep(DeleteFrame)
    \/ FrameStep(DeleteLastFrameRefused)
    \/ FrameStep(MoveFrameLeft)
    \/ FrameStep(MoveFrameRight)
    \/ FrameStep(MoveFrameLeftRefused)
    \/ FrameStep(MoveFrameRightRefused)
    \/ FrameStep(OnFrameSelected)

SpecFrames == Init /\ [][NextFrames]_vars

\* Projects and the frame rate: at most MaxProjectSteps handlers
ProjectStep(A) ==
    steps < MaxProjectSteps /\ steps' = steps + 1 /\ UNCHANGED <<ticks, edits>> /\ A

NextProject ==
    \/ ProjectStep(SetFps)
    \/ ProjectStep(OpenProject)
    \/ ProjectStep(OpenProjectRefused)
    \/ ProjectStep(OpenProjectRaises)
    \/ ProjectStep(NewProject)
    \/ ProjectStep(AddFrame)
    \/ ProjectStep(PlayAnimation)
    \/ ProjectStep(StopAnimation)

SpecProject == Init /\ [][NextProject]_vars

\* Resizing the canvas between frame operations: at most MaxResizeSteps
\* handlers
ResizeStep(A) ==
    steps < MaxResizeSteps /\ steps' = steps + 1 /\ UNCHANGED <<ticks, edits>> /\ A

NextResize ==
    \/ ResizeStep(ResizeCanvas)
    \/ ResizeStep(MousePress)
    \/ ResizeStep(MouseRelease)
    \/ ResizeStep(AddFrame)
    \/ ResizeStep(DuplicateFrame)
    \/ ResizeStep(OnFrameSelected)
    \/ ResizeStep(MoveFrameLeft)
    \/ ResizeStep(MoveFrameRight)

SpecResize == Init /\ [][NextResize]_vars

\* A project with transparent pixels opened, drawn on and resized: at most
\* MaxAlphaSteps handlers
AlphaStep(A) ==
    steps < MaxAlphaSteps /\ steps' = steps + 1 /\ UNCHANGED <<ticks, edits>> /\ A

NextAlpha ==
    \/ AlphaStep(OpenLayeredProject)
    \/ AlphaStep(ResizeCanvas)
    \/ AlphaStep(MousePress)
    \/ AlphaStep(MouseRelease)
    \/ AlphaStep(Undo)

SpecAlpha == Init /\ [][NextAlpha]_vars

\* The setters of the tool panel and update_current_frame around a stroke:
\* at most MaxSetterSteps handlers
SetterStep(A) ==
    steps < MaxSetterSteps /\ steps' = steps + 1 /\ UNCHANGED <<ticks, edits>> /\ A

NextSetters ==
    \/ SetterStep(SelectStartColor)
    \/ SetterStep(SelectEndColor)
    \/ SetterStep(SetBrushSize)
    \/ SetterStep(SetEraserSize)
    \/ SetterStep(SetTool)
    \/ SetterStep(UpdateCurrentFrame)
    \/ SetterStep(MousePress)
    \/ SetterStep(MouseRelease)

SpecSetters == Init /\ [][NextSetters]_vars

\* The canvas alone, every tool: at most MaxEdits handlers
CanvasStep(A) ==
    steps < MaxEdits /\ steps' = steps + 1 /\ UNCHANGED <<ticks, edits>> /\ A

NextCanvas ==
    \/ CanvasStep(MousePress)
    \/ CanvasStep(MouseMove)
    \/ CanvasStep(MouseRelease)
    \/ CanvasStep(Clear)
    \/ CanvasStep(Undo)
    \/ CanvasStep(Redo)
    \/ CanvasStep(ResizeCanvas)
    \/ CanvasStep(SetTool)
    \/ CanvasStep(SetBrushColor)

SpecCanvas == Init /\ [][NextCanvas]_vars

\* The history stacks in depth: any number of clears, undos and redos
\* around at most MaxMouseEvents mouse events
Free(A) == UNCHANGED <<steps, ticks, edits>> /\ A

Mouse(A) ==
    edits < MaxMouseEvents /\ edits' = edits + 1 /\ UNCHANGED <<steps, ticks>> /\ A

NextHistory ==
    \/ Mouse(MousePress)
    \/ Mouse(MouseRelease)
    \/ Free(Clear)
    \/ Free(Undo)
    \/ Free(Redo)

SpecHistory == Init /\ [][NextHistory]_vars

\* The canvas of MainWindow() resized to FillWidth x FillHeight
FillCanvas ==
    resize_canvas(load_image(CanvasInit, BlankFrame), FillWidth, FillHeight)

\* A dot of colour col at p: the pen of width 1 in that colour, a press and
\* a release at p
Dot(c, col, p) ==
    mouseReleaseEvent(
        mousePressEvent([c EXCEPT !.current_tool = "pen",
                                  !.brush_size = MinSliderSize,
                                  !.brush_color = col], p), p)

\* The canvases with at most n such dots drawn one after the other
RECURSIVE Dotted(_, _)
Dotted(col, n) ==
    IF n = 0 THEN {FillCanvas}
    ELSE LET fewer == Dotted(col, n - 1)
         IN  fewer \cup {Dot(c, col, p) : c \in fewer, p \in Positions(FillCanvas)}

FillBrushes == {Black, Red}

\* The fill tool on a canvas resized to FillWidth x FillHeight with at most
\* MaxDots black dots drawn on it, the brush back at its default width and
\* of a colour of the bitmap or of a third colour, the fill tool chosen
InitFill ==
    /\ canvas \in {[c EXCEPT !.current_tool = "fill",
                             !.brush_size = DefaultBrushSize,
                             !.brush_color = col] :
                        c \in Dotted(Black, MaxDots), col \in FillBrushes}
    /\ frames = <<BlankFrame>>
    /\ current_frame_index = 0
    /\ animation_timer = "absent"
    /\ orphan_timers = 0
    /\ playback_index = 0
    /\ old_index = 0
    /\ fps = DefaultFps
    /\ fps_spinner = DefaultFps
    /\ obs = ObsInit
    /\ steps = 0
    /\ ticks = 0
    /\ edits = 0

NextFill ==
    \/ Mouse(MousePress)
    \/ Mouse(MouseRelease)

SpecFill == InitFill /\ [][NextFill]_vars

\* The gradient tool on such a canvas with at most MaxDots dots of the
\* gradient's start colour, the brush back at its defaults
InitGradient ==
    /\ canvas \in {[c EXCEPT !.current_tool = "gradient",
                             !.brush_size = DefaultBrushSize,
                             !.brush_color = Black] :
                        c \in Dotted(Red, MaxDots)}
    /\ frames = <<BlankFrame>>
    /\ current_frame_index = 0
    /\ animation_timer = "absent"
    /\ orphan_timers = 0
    /\ playback_index = 0
    /\ old_index = 0
    /\ fps = DefaultFps
    /\ fps_spinner = DefaultFps
    /\ obs = ObsInit
    /\ steps = 0
    /\ ticks = 0
    /\ edits = 0

NextGradient ==
    \/ Mouse(MousePress)
    \/ Mouse(MouseRelease)

SpecGradient == InitGradient /\ [][NextGradient]_vars

----------------------------------------------------------------------------
(* Claims *)

\* C1: in every reachable state 0 <= current_frame_index < len(frames).
C1_IndexValid ==
    0 <= current_frame_index /\ current_frame_index < Len(frames)

\* C2: the frame sequence is never empty after construction.
C2_NeverEmpty == Len(frames) >= 1

\* C3: an undo directly after a surface-mutating action (a completed
\* stroke, clear, a size-changing resize) gives the bitmap as it was before
\* that action, and a redo directly after that undo gives the bitmap as it
\* was after the action.
C3_UndoRedoInverse ==
    /\ obs.phase = "undone" => canvas.image = obs.before
    /\ obs.phase = "redone" => canvas.image = obs.after

C3_Witness ==
    /\ obs.phase = "redone"
    /\ obs.before # obs.after
    /\ canvas.image = obs.after

\* The bitmap and the two stacks of a canvas
History(c) == <<c.image, c.undo_stack, c.redo_stack>>

\* C4 as stated: undo followed immediately by redo is the identity on the
\* surface bitmap in every reachable state.
C4_Original == redo(undo(canvas)).image = canvas.image

\* C4 as amended: when the undo stack is not empty, undo followed
\* immediately by redo leaves the bitmap and both stacks as they were.
C4_UndoRedoIdentity ==
    canvas.undo_stack # <<>> => History(redo(undo(canvas))) = History(canvas)

C4_Witness ==
    /\ canvas.undo_stack # <<>>
    /\ canvas.redo_stack # <<>>
    /\ undo(canvas).image # canvas.image
    /\ History(redo(undo(canvas))) = History(canvas)

\* C5: the undo stack never holds more than max_history bitmaps, and a push
\* onto a full stack drops the oldest entry.
C5_HistoryBound ==
    /\ Len(canvas.undo_stack) <= max_history
    /\ Len(canvas.undo_stack) = max_history =>
          save_state(canvas).undo_stack =
              Append(Tail(canvas.undo_stack), canvas.image)

\* a full stack that has lost its two oldest entries and holds different
\* bitmaps
C5_Witness ==
    /\ Len(canvas.undo_stack) = max_history
    /\ canvas.undo_stack[1] # BlankFrame
    /\ canvas.undo_stack[2] = BlankFrame

\* C6: with the undo stack empty, undo changes neither the bitmap nor the
\* stacks; with the redo stack empty, redo changes nothing.
C6_ExhaustedNoOp ==
    /\ canvas.undo_stack = <<>> => undo(canvas) = canvas
    /\ canvas.redo_stack = <<>> => redo(canvas) = canvas

\* more than max_history snapshots were pushed (the oldest retained one is
\* not the blank first one) and max_history undos have emptied the stack
C6_Witness ==
    /\ canvas.undo_stack = <<>>
    /\ Len(canvas.redo_stack) = max_history
    /\ canvas.image # BlankFrame
    /\ undo(canvas) = canvas

\* frames as play_animation leaves them: the live bitmap committed into the
\* current slot
CommittedAtPlay ==
    IF obs.pframes # <<>> /\ obs.pindex >= 0 /\ obs.pindex < Len(obs.pframes)
    THEN SetFrame(obs.pframes, obs.pindex, obs.pimage)
    ELSE obs.pframes

\* C7 as stated: play_animation, any number of ticks, then stop_animation
\* leave frames and current_frame_index exactly as before play_animation.
C7_Original ==
    obs.pdone => frames = obs.pframes /\ current_frame_index = obs.pindex

\* C7 as amended: they leave current_frame_index as before and frames as
\* before except that the current slot holds the bitmap that was live when
\* play_animation was called.
C7_PlaybackRestores ==
    obs.pdone => frames = CommittedAtPlay /\ current_frame_index = obs.pindex

\* two full cycles over two frames, begun with uncommitted edits
C7_Witness ==
    /\ obs.pdone
    /\ Len(frames) >= 2
    /\ obs.pticks >= 2 * Len(frames)
    /\ obs.pimage # Frame(obs.pframes, obs.pindex)

\* C8: a playback tick changes no entry of frames and neither stack.
C8_TickBypassesHistory ==
    [][AdvanceFrame =>
          /\ frames' = frames
          /\ canvas'.undo_stack = canvas.undo_stack
          /\ canvas'.redo_stack = canvas.redo_stack]_vars

\* The handlers whose one effect on the canvas is a call of load_image
LoadsImage ==
    \/ AddFrame
    \/ DuplicateFrame
    \/ DeleteFrame
    \/ MoveFrameLeft
    \/ MoveFrameRight
    \/ OnFrameSelected
    \/ PlayAnimation
    \/ StopAnimation
    \/ AdvanceFrame
    \/ OpenProject

\* C9: load_image replaces the live bitmap by the given one and leaves the
\* undo and redo stacks as they were: a handler that loads a frame shows
\* that frame and changes neither stack.
C9_LoadKeepsHistory ==
    [][(LoadsImage /\ canvas' # canvas) =>
          /\ \E i \in 1 .. Len(frames') : canvas'.image = frames'[i]
          /\ canvas'.undo_stack = canvas.undo_stack
          /\ canvas'.redo_stack = canvas.redo_stack]_vars

\* C10: play_animation while playback is active changes nothing.
C10_PlayWhilePlaying ==
    [][(animation_timer = "active" /\ PlayAnimation) =>
          /\ UNCHANGED <<frames, current_frame_index, old_index, playback_index,
                         animation_timer, orphan_timers>>
          /\ canvas'.image = canvas.image]_vars

\* C11: stop_animation while playback is not active changes neither frames
\* nor current_frame_index nor the surface bitmap nor the history.
C11_StopWhenStopped ==
    [][(animation_timer # "active" /\ (StopAnimation \/ StopAnimationNoTimer)) =>
          /\ UNCHANGED <<frames, current_frame_index>>
          /\ History(canvas') = History(canvas)]_vars

\* C12: after stop_animation no playback tick occurs until play_animation
\* is called again: a tick only happens while the timer of the last
\* play_animation is active.
C12_StopCancels == [][AdvanceFrame => animation_timer = "active"]_vars

\* C13: after play_animation, any number of ticks and stop_animation,
\* current_frame_index is the index selected when play_animation was called
\* and the surface shows frames[current_frame_index].
C13_StopRestores ==
    obs.pdone =>
        /\ current_frame_index = obs.pindex
        /\ get_image(canvas) = Frame(frames, current_frame_index)

\* playback of two different frames started on the second one and stopped
\* while it showed the first
C13_Witness ==
    /\ obs.pdone
    /\ obs.pindex = 1
    /\ obs.pticks = 2
    /\ playback_index = 0
    /\ Frame(frames, 0) # Frame(frames, 1)
    /\ get_image(canvas) = Frame(frames, 1)

\* The handlers that change the frame sequence or the selection
Structural ==
    \/ AddFrame
    \/ DuplicateFrame
    \/ DeleteFrame
    \/ MoveFrameLeft
    \/ MoveFrameRight
    \/ OnFrameSelected

\* C14: while playback is active a structural operation does not run, or
\* it stops playback first.
C14_NoStructuralWhilePlaying ==
    [][(animation_timer = "active" /\ Structural) =>
          animation_timer' # "active"]_vars

\* C15: after add_frame, any edits on the surface and the selection of
\* frame 0, get_image gives the first frame's content as it was when
\* add_frame was called.
C15_FrameRoundTrip == obs.rt = "back" => get_image(canvas) = obs.rtfirst

\* the added frame was edited and differed from the first one when frame 0
\* was selected again
C15_Witness ==
    /\ obs.rt = "back"
    /\ obs.rtsecond # BlankFrame
    /\ obs.rtsecond # obs.rtfirst
    /\ Frame(frames, Len(frames) - 1) = obs.rtsecond
    /\ get_image(canvas) = obs.rtfirst

\* C16: delete_frame on a sequence of exactly one frame changes nothing:
\* frames, current_frame_index, the surface bitmap and the history stay.
C16_DeleteLastRefused ==
    [][(Len(frames) = 1 /\ (DeleteFrame \/ DeleteLastFrameRefused)) =>
          /\ UNCHANGED <<frames, current_frame_index>>
          /\ History(canvas') = History(canvas)]_vars

\* the single frame, edited on the surface and not yet saved into its slot,
\* and delete_frame refused
C16_Witness ==
    /\ obs.refused = "delete"
    /\ Len(frames) = 1
    /\ get_image(canvas) # Frame(frames, 0)
    /\ canvas.undo_stack # <<>>

\* C17: move_frame_left with the first frame selected and move_frame_right
\* with the last frame selected change neither frames nor
\* current_frame_index.
C17_MoveBoundary ==
    [][(\/ current_frame_index = 0
           /\ (MoveFrameLeft \/ MoveFrameLeftRefused)
        \/ current_frame_index = Len(frames) - 1
           /\ (MoveFrameRight \/ MoveFrameRightRefused)) =>
          UNCHANGED <<frames, current_frame_index>>]_vars

\* move_frame_left refused on the first of two different frames
C17_Witness ==
    /\ obs.refused = "move_left"
    /\ current_frame_index = 0
    /\ Len(frames) >= 2
    /\ Frame(frames, 0) # Frame(frames, 1)

\* The pixels 4-adjacent to a pixel of R
Adjacent(img, R) ==
    {p \in DOMAIN img.px :
        \E q \in R : (IF p[1] >= q[1] THEN p[1] - q[1] ELSE q[1] - p[1])
                     + (IF p[2] >= q[2] THEN p[2] - q[2] ELSE q[2] - p[2]) = 1}

\* The maximal 4-connected region of pixels of the seed's colour that
\* contains the seed: the least set that holds the seed and every pixel of
\* that colour adjacent to one of its pixels
RECURSIVE Grow(_, _, _)
Grow(img, colour, R) ==
    LET more == {p \in Adjacent(img, R) : img.px[p] = colour} \ R
    IN  IF more = {} THEN R ELSE Grow(img, colour, R \cup more)

Region(img, seed) == Grow(img, img.px[seed], {seed})

\* C18: fill_at at a seed inside the image whose colour is not the brush
\* colour gives brush_color to exactly the pixels of the maximal
\* 4-connected region of the seed's colour around the seed and leaves every
\* other pixel as it was (and the loop ends).
C18_FloodFill ==
    \A seed \in DOMAIN canvas.image.px :
        canvas.image.px[seed] # canvas.brush_color =>
            LET filled == fill_at(canvas, seed).image
                region == Region(canvas.image, seed)
            IN  /\ DOMAIN filled.px = DOMAIN canvas.image.px
                /\ \A p \in DOMAIN filled.px :
                      filled.px[p] = IF p \in region THEN canvas.brush_color
                                                     ELSE canvas.image.px[p]

\* a fill has just painted a region and left, outside it, a pixel of the
\* region's colour (one that touches the region by a corner only)
C18_Witness ==
    /\ obs.phase = "mutated"
    /\ canvas.current_tool = "fill"
    /\ canvas.image # obs.before
    /\ \E seed \in DOMAIN obs.before.px :
          /\ obs.before.px[seed] # canvas.brush_color
          /\ canvas.image = Paint(obs.before, Region(obs.before, seed),
                                  canvas.brush_color)
          /\ \E q \in DOMAIN obs.before.px \ Region(obs.before, seed) :
                /\ obs.before.px[q] = obs.before.px[seed]
                /\ canvas.image.px[q] = obs.before.px[q]

\* C19: fill_at with a brush colour equal to the seed pixel's colour leaves
\* the bitmap as it was, for every seed.
C19_SameColourNoOp ==
    \A seed \in DOMAIN canvas.image.px :
        canvas.image.px[seed] = canvas.brush_color =>
            fill_at(canvas, seed).image = canvas.image

\* a fill has just run on a bitmap of two colours and changed nothing: its
\* seed had the brush colour
C19_Witness ==
    /\ obs.phase = "mutated"
    /\ canvas.current_tool = "fill"
    /\ canvas.image = obs.before
    /\ \E p, q \in DOMAIN canvas.image.px :
          /\ canvas.image.px[p] = canvas.brush_color
          /\ canvas.image.px[q] # canvas.brush_color

\* C20 as stated: every structural operation first writes the live bitmap
\* into frames[current_frame_index].
C20_Original == [][Structural => obs'.committed]_vars

\* C20 as amended: when current_frame_index addresses a frame, add_frame,
\* duplicate_frame, move_frame_left, move_frame_right and on_frame_selected
\* first write the live bitmap into that slot, so the slot being left (moved
\* with its frame by a move) holds the surface's content afterwards;
\* delete_frame writes nothing: it removes the slot and leaves the others.
C20_CommitBeforeChange ==
    [][IndexInRange =>
          /\ (AddFrame \/ DuplicateFrame \/ OnFrameSelected) =>
                /\ obs'.committed
                /\ Frame(frames', current_frame_index) = get_image(canvas)
          /\ MoveFrameLeft =>
                /\ obs'.committed
                /\ Frame(frames', current_frame_index - 1) = get_image(canvas)
          /\ MoveFrameRight =>
                /\ obs'.committed
                /\ Frame(frames', current_frame_index + 1) = get_image(canvas)
          /\ DeleteFrame =>
                /\ ~obs'.committed
                /\ frames' = PopFrame(frames, current_frame_index)]_vars

\* a frame left with edits that only the write could have put into its slot
C20_Witness ==
    /\ obs.committed
    /\ Len(frames) >= 2
    /\ current_frame_index = 1
    /\ Frame(frames, 0) # BlankFrame
    /\ get_image(canvas) = BlankFrame

\* The handlers that reload the surface with a frame
Reloads ==
    \/ AddFrame
    \/ DuplicateFrame
    \/ DeleteFrame
    \/ MoveFrameLeft
    \/ MoveFrameRight
    \/ OnFrameSelected
    \/ PlayAnimation
    \/ StopAnimation
    \/ AdvanceFrame

\* C21: once the surface is reloaded with another frame's content, the
\* history of the frame shown before is gone: undo and redo leave the loaded
\* bitmap on the surface.
C21_HistoryLocal ==
    [][(Reloads /\ canvas'.image # canvas.image) =>
          /\ undo(canvas').image = canvas'.image
          /\ redo(canvas').image = canvas'.image]_vars

\* C22: all frames have the same width and height.
C22_OneSize ==
    \A i, j \in 1 .. Len(frames) :
        frames[i].w = frames[j].w /\ frames[i].h = frames[j].h

\* C23: an open_project that fails leaves frames, current_frame_index, fps,
\* the surface bitmap and the history as they were.
C23_OpenFailureAtomic ==
    [][(OpenProjectRefused \/ OpenProjectRaises) =>
          /\ UNCHANGED <<frames, current_frame_index, fps>>
          /\ History(canvas') = History(canvas)]_vars

\* C24: fps is an integer from 1 to 60 in every reachable state.
C24_FpsInRange == fps \in MinFps .. MaxFps

\* C25: directly after a stroke, clear or a size-changing resize_canvas the
\* top of the undo stack is the bitmap as it was before the action.
C25_SnapshotBeforeMutation ==
    obs.phase = "mutated" =>
        /\ canvas.undo_stack # <<>>
        /\ canvas.undo_stack[Len(canvas.undo_stack)] = obs.before

\* a second action that changed the bitmap, its snapshot on top of the first
C25_Witness ==
    /\ obs.phase = "mutated"
    /\ get_image(canvas) # obs.before
    /\ Len(canvas.undo_stack) >= 2
    /\ canvas.undo_stack[Len(canvas.undo_stack)] = obs.before
    /\ canvas.undo_stack[Len(canvas.undo_stack) - 1] # obs.before

\* C26: a snapshot push empties the redo stack, and after an action that
\* pushed one redo does nothing until an undo is performed.
C26_PushClearsRedo ==
    /\ save_state(canvas).redo_stack = <<>>
    /\ obs.fresh => canvas.redo_stack = <<>> /\ redo(canvas) = canvas

\* a push that found entries on the redo stack
C26_Witness ==
    /\ obs.fresh
    /\ obs.dropped
    /\ canvas.undo_stack # <<>>
    /\ canvas.redo_stack = <<>>

\* C27: delete_frame on more than one frame removes frames[i] for the
\* current index i, keeps the others in order, selects min(i, len - 1) of
\* the shorter sequence and loads that frame.
C27_DeleteFrame ==
    [][DeleteFrame =>
          LET i == current_frame_index
              n == Len(frames)
          IN  /\ Len(frames') = n - 1
              /\ \A j \in 0 .. n - 2 :
                    Frame(frames', j) = IF j < i THEN Frame(frames, j)
                                                ELSE Frame(frames, j + 1)
              /\ current_frame_index' = Min(i, n - 2)
              /\ get_image(canvas') = Frame(frames', current_frame_index')]_vars

\* the last of three frames deleted: the selection falls back on the new
\* last frame
C27_Witness ==
    /\ obs.op = "delete_frame"
    /\ Len(frames) >= 2
    /\ current_frame_index = Len(frames) - 1
    /\ get_image(canvas) = Frame(frames, current_frame_index)

\* C28: add_frame saves the live bitmap into the current slot, appends one
\* blank frame and selects it; the surface is blank and the other frames
\* are as before.
C28_AddFrame ==
    [][AddFrame =>
          LET n == Len(frames)
          IN  /\ Len(frames') = n + 1
              /\ current_frame_index' = n
              /\ Frame(frames', n) = BlankFrame
              /\ get_image(canvas') = BlankFrame
              /\ \A j \in 0 .. n - 1 :
                    Frame(frames', j) = IF j = current_frame_index
                                        THEN get_image(canvas)
                                        ELSE Frame(frames, j)]_vars

\* a third frame added after edits to the second
C28_Witness ==
    /\ obs.op = "add_frame"
    /\ Len(frames) = 3
    /\ current_frame_index = 2
    /\ Frame(frames, 0) = BlankFrame
    /\ Frame(frames, 1) # BlankFrame
    /\ get_image(canvas) = BlankFrame

\* C29: duplicate_frame at index i leaves the live bitmap in slots i and
\* i + 1, selects i + 1, shifts the frames after i by one and shows the copy.
C29_DuplicateFrame ==
    [][DuplicateFrame =>
          LET i == current_frame_index
              n == Len(frames)
          IN  /\ Len(frames') = n + 1
              /\ current_frame_index' = i + 1
              /\ Frame(frames', i) = get_image(canvas)
              /\ Frame(frames', i + 1) = get_image(canvas)
              /\ get_image(canvas') = get_image(canvas)
              /\ \A j \in 0 .. n - 1 :
                    /\ j < i => Frame(frames', j) = Frame(frames, j)
                    /\ j > i => Frame(frames', j + 1) = Frame(frames, j)]_vars

\* the first of two different frames duplicated: the other one is shifted
C29_Witness ==
    /\ obs.op = "duplicate_frame"
    /\ Len(frames) = 3
    /\ current_frame_index = 1
    /\ Frame(frames, 0) = Frame(frames, 1)
    /\ Frame(frames, 2) # Frame(frames, 1)

\* What a move by d (-1 left, 1 right) leaves: the live bitmap in the
\* neighbour's slot, the neighbour in the slot left, the selection moved
MovedBy(d) ==
    LET i == current_frame_index
        k == current_frame_index + d
    IN  /\ current_frame_index' = k
        /\ Len(frames') = Len(frames)
        /\ Frame(frames', k) = get_image(canvas)
        /\ Frame(frames', i) = Frame(frames, k)
        /\ \A j \in 0 .. Len(frames) - 1 :
              j \notin {i, k} => Frame(frames', j) = Frame(frames, j)

\* C30: a move away from the boundary saves the live bitmap into the
\* current slot, swaps that frame with its neighbour and moves the selection
\* with it.
C30_MoveFrame ==
    [][/\ MoveFrameLeft => MovedBy(-1)
       /\ MoveFrameRight => MovedBy(1)]_vars

\* the second frame, edited and not yet saved, moved to the front
C30_Witness ==
    /\ obs.op = "move_frame_left"
    /\ current_frame_index = 0
    /\ Frame(frames, 0) # BlankFrame
    /\ Frame(frames, 1) = BlankFrame
    /\ get_image(canvas) = Frame(frames, 0)

\* C31: on_frame_selected saves the live bitmap into the slot that was
\* current, selects the clicked index and loads frames[index]; the other
\* frames and the length of frames are unchanged.
C31_SelectFrame ==
    [][OnFrameSelected =>
          LET i == current_frame_index
              n == Len(frames)
          IN  /\ Len(frames') = n
              /\ current_frame_index' \in 0 .. n - 1
              /\ \A j \in 0 .. n - 1 :
                    Frame(frames', j) = IF j = i THEN get_image(canvas)
                                                ELSE Frame(frames, j)
              /\ get_image(canvas') = Frame(frames', current_frame_index')]_vars

\* the first frame selected again while the second one held unsaved edits
C31_Witness ==
    /\ obs.rt = "back"
    /\ obs.committed
    /\ current_frame_index = 0
    /\ Len(frames) = 2
    /\ Frame(frames, 1) = obs.rtsecond
    /\ Frame(frames, 1) # BlankFrame
    /\ Frame(frames, 0) # Frame(frames, 1)
    /\ get_image(canvas) = Frame(frames, 0)

\* C32: a playback tick on a non-empty sequence sets playback_index to
\* (playback_index + 1) mod len(frames), inside 0 .. len(frames) - 1, and
\* shows frames[playback_index]; k ticks after play_animation with nothing
\* in between, playback_index is k mod len(frames), so len(frames) ticks in
\* a row show each frame once, in the order of the sequence.
C32_TickAdvances ==
    /\ [][(AdvanceFrame /\ frames # <<>>) =>
             /\ playback_index' = (playback_index + 1) % Len(frames)
             /\ playback_index' \in 0 .. Len(frames) - 1
             /\ get_image(canvas') = Frame(frames, playback_index')]_vars
    /\ [](obs.pclean /\ frames # <<>> =>
             /\ playback_index = obs.pticks % Len(frames)
             /\ get_image(canvas) = Frame(frames, playback_index))

\* a whole cycle over two different frames, back on the first
C32_Witness ==
    /\ obs.pclean
    /\ Len(frames) >= 2
    /\ obs.pticks = Len(frames)
    /\ playback_index = 0
    /\ Frame(frames, 0) # Frame(frames, 1)
    /\ get_image(canvas) = Frame(frames, 0)

\* C33: fill_gradient at a seed inside the image whose colour is neither
\* gradient colour finds exactly the maximal 4-connected region of the
\* seed's colour around the seed and leaves every pixel outside it as it
\* was; at a seed of gradient_start_color or gradient_end_color it changes
\* no pixel.
C33_GradientFill ==
    \A seed \in DOMAIN canvas.image.px :
        LET filled == fill_gradient(canvas, seed).image
            region == Region(canvas.image, seed)
        IN  IF canvas.image.px[seed] \in {canvas.gradient_start_color,
                                          canvas.gradient_end_color}
            THEN filled = canvas.image
            ELSE /\ ShapeLoop(canvas.image, canvas.image.px[seed],
                              <<seed>>, {}) = region
                 /\ DOMAIN filled.px = DOMAIN canvas.image.px
                 /\ \A p \in DOMAIN filled.px \ region :
                       filled.px[p] = canvas.image.px[p]

\* a gradient fill has just repainted every pixel of a region and left,
\* outside it, a pixel of the region's old colour and one of a gradient
\* colour
C33_Witness ==
    /\ obs.phase = "mutated"
    /\ canvas.current_tool = "gradient"
    /\ \E seed \in DOMAIN obs.before.px :
          LET region == Region(obs.before, seed)
          IN  /\ obs.before.px[seed] = White
              /\ \A p \in region : canvas.image.px[p] # obs.before.px[p]
              /\ \A p \in DOMAIN obs.before.px \ region :
                    canvas.image.px[p] = obs.before.px[p]
              /\ \E q \in DOMAIN obs.before.px \ region :
                    obs.before.px[q] = White
              /\ \E q \in DOMAIN obs.before.px \ region :
                    obs.before.px[q] = canvas.gradient_start_color

\* C34: resize_canvas(w, h) with (w, h) the current canvas size changes
\* nothing; with another size the new bitmap is w by h, equal to the old
\* bitmap at every coordinate inside both and white outside the old bounds.
C34_Resize ==
    \A sz \in Sizes :
        LET resized == resize_canvas(canvas, sz[1], sz[2])
        IN  IF sz = <<canvas.canvas_width, canvas.canvas_height>>
            THEN resized = canvas
            ELSE /\ resized.image.w = sz[1]
                 /\ resized.image.h = sz[2]
                 /\ DOMAIN resized.image.px = Coords(sz[1], sz[2])
                 /\ \A p \in Coords(sz[1], sz[2]) :
                       resized.image.px[p] =
                           IF p \in DOMAIN canvas.image.px
                           THEN canvas.image.px[p] ELSE White

\* C35: canvas_width and canvas_height are the width and height of the live
\* bitmap in every reachable state.
C35_SizeFields ==
    /\ canvas.canvas_width = canvas.image.w
    /\ canvas.canvas_height = canvas.image.h

\* C36: directly after add_frame, duplicate_frame, a delete_frame that was
\* not refused, a move away from the boundary, on_frame_selected,
\* play_animation, a playback tick or stop_animation, the live bitmap is
\* frames[current_frame_index].
C36_SurfaceIsCurrentSlot ==
    [][Reloads =>
          /\ IndexInRange'
          /\ get_image(canvas') = Frame(frames', current_frame_index')]_vars

====
